---- MODULE Spec2Model ----
(***************************************************************************)
(* The four interpolation engines of mklug/interpolate as one state        *)
(* machine: LagrangeInterpolator, NewtonInterpolator, LinearInterpolator   *)
(* and PiecewiseCubicHermiteInterpolator (on MutableSetInterpolator).      *)
(*                                                                         *)
(* One engine object exists at a time (kind).  Python floats are modelled  *)
(* as exact rationals <<numerator, denominator>> in lowest terms with a    *)
(* positive denominator, so every arithmetic step of the source is carried *)
(* out exactly.  Python exceptions are the value of err after a call.      *)
(***************************************************************************)
EXTENDS Integers, Sequences, FiniteSets, TLC

VARIABLES
    kind,          \* "none" or the class of the constructed engine
    xs,            \* self.xs
    ys,            \* self.ys
    ws,            \* LagrangeInterpolator.ws
    coef,          \* NewtonInterpolator._coef
    divided_diff,  \* NewtonInterpolator._divided_diff
    fprime,        \* PiecewiseCubicHermiteInterpolator.fprime
    call,          \* the last call made: operation, index, query, sample shape
    err,           \* "none" or the exception type the last call raised
    ret,           \* <<>> or the value the last call returned
    given,         \* history: the samples supplied and not discarded since
    distinctInit   \* history: the constructor's input had pairwise distinct x

vars == <<kind, xs, ys, ws, coef, divided_diff, fprime, call, err, ret,
          given, distinctInit>>

arrays == <<xs, ys, ws, coef, divided_diff, fprime>>

---------------------------------------------------------------------------
(* Bounds of the model. *)

\* the largest number of samples an engine is let to hold
MaxLen == 3
\* the x of a sample is one of 0 .. MaxX
MaxX == 2

XVals == 0 .. MaxX
YVals == {0, 1}
\* the (f, fprime) of a Hermite sample
HermiteVals == {<<0, 1>>, <<1, 0>>}
Indices == (0 - 1) .. MaxLen
DelIndices == {0 - MaxLen - 1} \cup Indices

---------------------------------------------------------------------------
(* Exact arithmetic on the values Python holds as floats. *)

Abs(a) == IF a < 0 THEN 0 - a ELSE a

RECURSIVE GCD(_, _)
GCD(a, b) == IF b = 0 THEN a ELSE GCD(b, a % b)

Rat(n, d) ==
    LET s == IF d < 0 THEN 0 - 1 ELSE 1
        g == GCD(Abs(n), Abs(d))
    IN  <<(s * n) \div g, (s * d) \div g>>

Float(n) == <<n, 1>>

RAdd(a, b) == Rat(a[1] * b[2] + b[1] * a[2], a[2] * b[2])
RSub(a, b) == Rat(a[1] * b[2] - b[1] * a[2], a[2] * b[2])
RMul(a, b) == Rat(a[1] * b[1], a[2] * b[2])
RDiv(a, b) == Rat(a[1] * b[2], a[2] * b[1])
RNeg(a) == <<0 - a[1], a[2]>>
RLt(a, b) == a[1] * b[2] < b[1] * a[2]

Range(s) == {s[i] : i \in 1 .. Len(s)}

Distinct(s) == \A i, j \in 1 .. Len(s) : i # j => s[i] # s[j]

\* list.insert(index, v) for 0 <= index <= len(list), index 0-based
InsertAt(s, index, v) ==
    SubSeq(s, 1, index) \o <<v>> \o SubSeq(s, index + 1, Len(s))

\* del list[index] for 0 <= index < len(list), index 0-based
RemoveAt(s, index) == SubSeq(s, 1, index) \o SubSeq(s, index + 2, Len(s))

\* list.index(v): 0-based position of the first element equal to v
IndexOf(s, v) == (CHOOSE i \in 1 .. Len(s) :
                      s[i] = v /\ \A k \in 1 .. (i - 1) : s[k] # v) - 1

\* the position Python's list subscript reads for index, 0-based
PyIndex(index, N) == IF index < 0 THEN index + N ELSE index

\* list[index] raises IndexError unless -N <= index < N
PyInRange(index, N) == index >= 0 - N /\ index < N

RECURSIVE prodFrom(_, _)
prodFrom(nums, res) ==
    IF nums = <<>> THEN res
    ELSE prodFrom(Tail(nums), RMul(res, Head(nums)))

prod(nums) == prodFrom(nums, Float(1))

RECURSIVE sumFrom(_, _)
sumFrom(nums, res) ==
    IF nums = <<>> THEN res
    ELSE sumFrom(Tail(nums), RAdd(res, Head(nums)))

sum(nums) == sumFrom(nums, Float(0))

\* v ** -1
Inverse(v) == RDiv(Float(1), v)

\* a sample as passed by the caller: a tuple or a list of 1 to 3 numbers
IsTuple2(point) == point.tuple /\ Len(point.c) = 2
IsTuple3(point) == point.tuple /\ Len(point.c) = 3

Shapes(n) ==
    IF n = 1 THEN {<<x>> : x \in XVals}
    ELSE IF n = 2 THEN {<<x, y>> : x \in XVals, y \in YVals}
    ELSE {<<x, v[1], v[2]>> : x \in XVals, v \in HermiteVals}

\* the values passed where a pair is expected: every 2-tuple, and of the
\* other shapes the 1-tuple (0,), the 3-tuples (x, 0, 0) and the list [0, 0]
Points ==
    {[tuple |-> TRUE, c |-> c] : c \in Shapes(2)}
    \cup {[tuple |-> TRUE, c |-> <<0>>]}
    \cup {[tuple |-> TRUE, c |-> <<x, 0, 0>>] : x \in XVals}
    \cup {[tuple |-> FALSE, c |-> <<0, 0>>]}

\* the values passed where a triple is expected: every 3-tuple, and of the
\* other shapes the 2-tuple (0, 0) and the list [0, 0, 0]
TriplePoints ==
    {[tuple |-> TRUE, c |-> c] : c \in Shapes(3)}
    \cup {[tuple |-> TRUE, c |-> <<0, 0>>]}
    \cup {[tuple |-> FALSE, c |-> <<0, 0, 0>>]}

RECURSIVE SeqsUpTo(_, _)
SeqsUpTo(S, n) ==
    IF n = 0 THEN {<<>>}
    ELSE LET shorter == SeqsUpTo(S, n - 1)
         IN  shorter \cup {Append(s, e) : s \in {t \in shorter : Len(t) = n - 1},
                                          e \in S}

\* the list s without its element at 1-based position i
Without(s, i) == SubSeq(s, 1, i - 1) \o SubSeq(s, i + 1, Len(s))

Column(points, k) == [i \in 1 .. Len(points) |-> Float(points[i][k])]

---------------------------------------------------------------------------
(* The engine object: the arrays of the instance and the exception, if   *)
(* any, the running method has raised.                                     *)

NoObject == [xs |-> <<>>, ys |-> <<>>, ws |-> <<>>, coef |-> <<>>,
             divided_diff |-> <<>>, fprime |-> <<>>, err |-> "none"]

Self == [xs |-> xs, ys |-> ys, ws |-> ws, coef |-> coef,
         divided_diff |-> divided_diff, fprime |-> fprime, err |-> "none"]

Raise(self, e) == [self EXCEPT !.err = e]

---------------------------------------------------------------------------
(* LagrangeInterpolator *)

\* the weight list comprehension of __init__
LagrangeWeights(xv) ==
    [i \in 1 .. Len(xv) |->
        Inverse(prod(Without([j \in 1 .. Len(xv) |-> RSub(xv[i], xv[j])], i)))]

LagrangeInit(points) ==
    IF Len(points) < 2 THEN Raise(NoObject, "Exception")
    ELSE LET xv == Column(points, 1) IN
         IF Len(xv) # Cardinality(Range(xv)) THEN Raise(NoObject, "ValueError")
         ELSE [NoObject EXCEPT !.xs = xv,
                               !.ys = Column(points, 2),
                               !.ws = LagrangeWeights(xv)]

LagrangeCall(self, x) ==
    IF x \in Range(self.xs) THEN self.ys[IndexOf(self.xs, x) + 1]
    ELSE LET phi_x == prod([i \in 1 .. Len(self.xs) |-> RSub(x, self.xs[i])])
         IN  RMul(phi_x,
                  sum([i \in 1 .. Len(self.xs) |->
                          RMul(RDiv(self.ws[i], RSub(x, self.xs[i])), self.ys[i])]))

LagrangeAppend(self, point) ==
    IF ~IsTuple2(point) THEN Raise(self, "TypeError")
    ELSE LET x_new == Float(point.c[1])
             y_new == Float(point.c[2])
         IN  IF x_new \in Range(self.xs) THEN Raise(self, "Exception")
             ELSE [self EXCEPT
                     !.ws = Append([i \in 1 .. Len(self.ws) |->
                                       RDiv(self.ws[i], RSub(self.xs[i], x_new))],
                                   Inverse(prod([j \in 1 .. Len(self.xs) |->
                                                    RSub(x_new, self.xs[j])]))),
                     !.xs = Append(self.xs, x_new),
                     !.ys = Append(self.ys, y_new)]

\* LagrangeDelitem with the size test made after the deletion
DelitemCheckAfter(self, index) ==
    LET N == Len(self.xs) IN
    IF ~PyInRange(index, N) THEN Raise(self, "IndexError")
    ELSE LET at == PyIndex(index, N)
             x_remove == self.xs[at + 1]
             xv == RemoveAt(self.xs, at)
             wv == RemoveAt(self.ws, at)
             deleted == [self EXCEPT
                          !.xs = xv,
                          !.ys = RemoveAt(self.ys, at),
                          !.ws = [i \in 1 .. (N - 1) |->
                                     RMul(wv[i], RSub(xv[i], x_remove))]]
         IN  IF N - 1 < 2 THEN Raise(deleted, "Exception") ELSE deleted

\* LagrangeDelitem with the factor of the weight update reversed
DelitemReversedFactor(self, index) ==
    LET N == Len(self.xs) IN
    IF N <= 2 THEN Raise(self, "Exception")
    ELSE IF ~PyInRange(index, N) THEN Raise(self, "IndexError")
    ELSE LET at == PyIndex(index, N)
             x_remove == self.xs[at + 1]
             xv == RemoveAt(self.xs, at)
             wv == RemoveAt(self.ws, at)
         IN  [self EXCEPT
                 !.xs = xv,
                 !.ys = RemoveAt(self.ys, at),
                 !.ws = [i \in 1 .. (N - 1) |-> RMul(wv[i], RSub(x_remove, xv[i]))]]

LagrangeDelitem(self, index) ==
    LET N == Len(self.xs) IN
    IF N <= 2 THEN Raise(self, "Exception")
    ELSE IF ~PyInRange(index, N) THEN Raise(self, "IndexError")
    ELSE LET at == PyIndex(index, N)
             x_remove == self.xs[at + 1]
             xv == RemoveAt(self.xs, at)
             wv == RemoveAt(self.ws, at)
         IN  [self EXCEPT
                 !.xs = xv,
                 !.ys = RemoveAt(self.ys, at),
                 !.ws = [i \in 1 .. (N - 1) |-> RMul(wv[i], RSub(xv[i], x_remove))]]

LagrangeGetitem(self, index) ==
    LET N == Len(self.xs) IN
    IF index < 0 \/ index >= N THEN [err |-> "IndexError", ret |-> <<>>]
    ELSE [err |-> "none", ret |-> <<self.xs[index + 1], self.ys[index + 1]>>]

LagrangeSetitem(self, index, point) ==
    LET N == Len(self.xs) IN
    IF index < 0 \/ index >= N THEN Raise(self, "IndexError")
    ELSE IF ~IsTuple2(point) THEN Raise(self, "TypeError")
    ELSE LET x_new == Float(point.c[1])
             y_new == Float(point.c[2])
             at == index + 1
         IN  IF x_new \in Range(Without(self.xs, at)) THEN Raise(self, "Exception")
             ELSE [self EXCEPT
                     !.ws = [i \in 1 .. N |->
                               IF i = at
                               THEN Inverse(prod(Without(
                                        [j \in 1 .. N |-> RSub(x_new, self.xs[j])], at)))
                               ELSE RDiv(RMul(self.ws[i], RSub(self.xs[i], self.xs[at])),
                                         RSub(self.xs[i], x_new))],
                     !.xs = [self.xs EXCEPT ![at] = x_new],
                     !.ys = [self.ys EXCEPT ![at] = y_new]]

LagrangeInsert(self, index, point) ==
    LET N == Len(self.xs) IN
    IF index < 0 \/ index >= N THEN Raise(self, "IndexError")
    \* point[1] of a one-component value
    ELSE IF Len(point.c) < 2 THEN Raise(self, "IndexError")
    ELSE LET x_new == Float(point.c[1])
             y_new == Float(point.c[2])
         IN  IF x_new \in Range(self.xs) THEN Raise(self, "Exception")
             ELSE [self EXCEPT
                     !.ws = InsertAt([i \in 1 .. N |->
                                         RDiv(self.ws[i], RSub(self.xs[i], x_new))],
                                     index,
                                     Inverse(prod([j \in 1 .. N |->
                                                      RSub(x_new, self.xs[j])]))),
                     !.xs = InsertAt(self.xs, index, x_new),
                     !.ys = InsertAt(self.ys, index, y_new)]

---------------------------------------------------------------------------
(* NewtonInterpolator *)

\* the inner loop over enumerate(prev_row): new_row grows by one divided
\* difference per element of prev_row; i is the 0-based row number
RECURSIVE DividedRow(_, _, _, _)
DividedRow(xv, i, prev_row, new_row) ==
    LET j == Len(new_row) - 1 IN
    IF j >= Len(prev_row) THEN new_row
    ELSE DividedRow(xv, i, prev_row,
            Append(new_row,
                   RDiv(RSub(prev_row[j + 1], new_row[Len(new_row)]),
                        RSub(xv[(i - 1 - j) + 1], xv[i + 1]))))

\* the outer loop of __init__ from row i on: <<_coef, new_row>>
RECURSIVE DividedTable(_, _, _, _, _)
DividedTable(xv, yv, i, cf, prev_row) ==
    IF i >= Len(xv) THEN <<cf, prev_row>>
    ELSE LET new_row == DividedRow(xv, i, prev_row, <<yv[i + 1]>>)
         IN  DividedTable(xv, yv, i + 1, Append(cf, new_row[Len(new_row)]), new_row)

NewtonInit(points) ==
    IF Len(points) < 2 THEN Raise(NoObject, "Exception")
    ELSE LET xv == Column(points, 1) IN
         IF Len(xv) # Cardinality(Range(xv)) THEN Raise(NoObject, "ValueError")
         ELSE LET yv == Column(points, 2)
                  t == DividedTable(xv, yv, 0, <<>>, <<>>)
              IN  [NoObject EXCEPT !.xs = xv, !.ys = yv,
                                   !.coef = t[1], !.divided_diff = t[2]]

\* NewtonAppend extending the coefficient list instead of the last row
AppendFromCoef(self, point) ==
    IF ~IsTuple2(point) THEN Raise(self, "TypeError")
    ELSE LET x_new == Float(point.c[1])
             y_new == Float(point.c[2])
         IN  IF x_new \in Range(self.xs) THEN Raise(self, "Exception")
             ELSE LET index == Len(self.xs)
                      xv == Append(self.xs, x_new)
                      yv == Append(self.ys, y_new)
                      row == DividedRow(xv, index, self.coef, <<yv[index + 1]>>)
                  IN  [self EXCEPT !.xs = xv, !.ys = yv,
                                   !.divided_diff = row,
                                   !.coef = Append(self.coef, row[Len(row)])]

NewtonAppend(self, point) ==
    IF ~IsTuple2(point) THEN Raise(self, "TypeError")
    ELSE LET x_new == Float(point.c[1])
             y_new == Float(point.c[2])
         IN  IF x_new \in Range(self.xs) THEN Raise(self, "Exception")
             ELSE LET index == Len(self.xs)
                      xv == Append(self.xs, x_new)
                      yv == Append(self.ys, y_new)
                      row == DividedRow(xv, index, self.divided_diff, <<yv[index + 1]>>)
                  IN  [self EXCEPT !.xs = xv, !.ys = yv,
                                   !.divided_diff = row,
                                   !.coef = Append(self.coef, row[Len(row)])]

\* the loop for i in range(N-2, -1, -1), i 0-based
RECURSIVE NewtonHorner(_, _, _, _)
NewtonHorner(self, x, i, y) ==
    IF i < 0 THEN y
    ELSE NewtonHorner(self, x, i - 1,
                      RAdd(RMul(y, RSub(x, self.xs[i + 1])), self.coef[i + 1]))

NewtonCall(self, x) ==
    NewtonHorner(self, x, Len(self.xs) - 2, self.coef[Len(self.coef)])

NewtonGetitem(self, index) ==
    LET N == Len(self.xs) IN
    IF index < 0 \/ index >= N THEN [err |-> "IndexError", ret |-> <<>>]
    ELSE [err |-> "none", ret |-> <<self.xs[index + 1], self.ys[index + 1]>>]

---------------------------------------------------------------------------
(* MutableSetInterpolator and the bisect calls of its subclasses *)

\* bisect.bisect_left(a, x): binary search, lo and hi 0-based
RECURSIVE BisectLeft(_, _, _, _)
BisectLeft(a, x, lo, hi) ==
    IF lo >= hi THEN lo
    ELSE LET mid == (lo + hi) \div 2 IN
         IF RLt(a[mid + 1], x) THEN BisectLeft(a, x, mid + 1, hi)
         ELSE BisectLeft(a, x, lo, mid)

\* bisect.bisect(a, x), which is bisect_right
RECURSIVE BisectRight(_, _, _, _)
BisectRight(a, x, lo, hi) ==
    IF lo >= hi THEN lo
    ELSE LET mid == (lo + hi) \div 2 IN
         IF RLt(x, a[mid + 1]) THEN BisectRight(a, x, lo, mid)
         ELSE BisectRight(a, x, mid + 1, hi)

\* bisect.insort(a, x)
Insort(a, x) == InsertAt(a, BisectRight(a, x, 0, Len(a)), x)

\* sorted(points, key=lambda z: z[0]): a stable sort on the first component
RECURSIVE SortedByX(_)
SortedByX(points) ==
    IF points = <<>> THEN <<>>
    ELSE LET n == Len(points)
             front == SortedByX(SubSeq(points, 1, n - 1))
             p == points[n]
             k == Cardinality({i \in 1 .. Len(front) : front[i][1] <= p[1]})
         IN  InsertAt(front, k, p)

MutableSetInit(xv, yv) ==
    IF Len(xv) < 1 THEN Raise(NoObject, "Exception")
    ELSE [NoObject EXCEPT !.xs = xv, !.ys = yv]

MutableSetGetitem(self, index) ==
    LET N == Len(self.xs) IN
    IF index < 0 \/ index >= N THEN [err |-> "IndexError", ret |-> <<>>]
    ELSE [err |-> "none", ret |-> <<self.xs[index + 1], self.ys[index + 1]>>]

---------------------------------------------------------------------------
(* LinearInterpolator *)

LinearInit(points) ==
    LET zipped == SortedByX(points)
    IN  MutableSetInit(Column(zipped, 1), Column(zipped, 2))

LinearCall(self, x) ==
    LET N == Len(self.xs)
        L == BisectLeft(self.xs, x, 0, N) - 1
    IN  IF L = 0 - 1 THEN self.ys[1]
        ELSE IF L = N - 1 THEN self.ys[N]
        ELSE LET R == L + 1
                 a == RDiv(RSub(self.ys[L + 1], self.ys[R + 1]),
                           RSub(self.xs[L + 1], self.xs[R + 1]))
                 b == RSub(self.ys[L + 1], RMul(a, self.xs[L + 1]))
             IN  RAdd(RMul(a, x), b)

\* LinearDiscard without the test that a sample remains
DiscardUnguarded(self, x) ==
    LET xf == Float(x) IN
    IF xf \in Range(self.xs)
    THEN LET index == IndexOf(self.xs, xf)
         IN  [self EXCEPT !.xs = RemoveAt(self.xs, index),
                          !.ys = RemoveAt(self.ys, index)]
    ELSE self

LinearDiscard(self, x) ==
    LET xf == Float(x) IN
    IF xf \in Range(self.xs)
    THEN IF Len(self.xs) <= 1 THEN Raise(self, "Exception")
         ELSE LET index == IndexOf(self.xs, xf)
              IN  [self EXCEPT !.xs = RemoveAt(self.xs, index),
                               !.ys = RemoveAt(self.ys, index)]
    ELSE self

\* LinearAdd taking the position for y after x has been inserted
AddIndexAfterInsort(self, point) ==
    IF ~IsTuple2(point) THEN Raise(self, "TypeError")
    ELSE LET x_new == Float(point.c[1])
             y_new == Float(point.c[2])
         IN  IF x_new \in Range(self.xs) THEN Raise(self, "Exception")
             ELSE LET xv == Insort(self.xs, x_new)
                      index == BisectRight(xv, x_new, 0, Len(xv))
                  IN  [self EXCEPT !.xs = xv,
                                   !.ys = InsertAt(self.ys,
                                             IF index > Len(self.ys)
                                             THEN Len(self.ys) ELSE index,
                                             y_new)]

LinearAdd(self, point) ==
    IF ~IsTuple2(point) THEN Raise(self, "TypeError")
    ELSE LET x_new == Float(point.c[1])
             y_new == Float(point.c[2])
         IN  IF x_new \in Range(self.xs) THEN Raise(self, "Exception")
             ELSE LET index == BisectRight(self.xs, x_new, 0, Len(self.xs))
                  IN  [self EXCEPT !.xs = Insort(self.xs, x_new),
                                   !.ys = InsertAt(self.ys, index, y_new)]

---------------------------------------------------------------------------
(* PiecewiseCubicHermiteInterpolator *)

\* points is zip(xs, f, fprime)
HermiteInit(points) ==
    IF Len(points) < 1 THEN Raise(NoObject, "Exception")
    ELSE LET zipped == SortedByX(points)
             base == MutableSetInit(Column(zipped, 1), Column(zipped, 2))
         IN  IF base.err # "none" THEN base
             ELSE [base EXCEPT !.fprime = Column(zipped, 3)]

Square(v) == RMul(v, v)
Cube(v) == RMul(v, RMul(v, v))

\* HermiteCall with the derivatives subtracted in alpha
CallAlphaSign(self, x) ==
    LET N == Len(self.xs)
        L == BisectLeft(self.xs, x, 0, N) - 1
    IN  IF L = 0 - 1 THEN self.ys[1]
        ELSE IF L = N - 1 THEN self.ys[N]
        ELSE LET R == L + 1
                 xL == self.xs[L + 1]
                 xR == self.xs[R + 1]
                 fL == self.ys[L + 1]
                 fR == self.ys[R + 1]
                 fpL == self.fprime[L + 1]
                 fpR == self.fprime[R + 1]
                 h == RSub(xR, xL)
                 alpha == RAdd(RMul(RDiv(Float(3), Square(h)), RSub(fpL, fpR)),
                               RMul(RDiv(Float(6), Cube(h)), RSub(fL, fR)))
                 t1 == RMul(RDiv(RNeg(fpL), h),
                            RSub(RDiv(Square(RSub(x, xR)), Float(2)),
                                 RDiv(Square(h), Float(2))))
                 t2 == RDiv(RMul(RDiv(fpR, h), Square(RSub(x, xL))), Float(2))
                 t3 == RMul(RMul(alpha, Square(RSub(x, xL))),
                            RSub(RDiv(RSub(x, xL), Float(3)), RDiv(h, Float(2))))
             IN  RAdd(RAdd(RAdd(t1, t2), t3), fL)

HermiteCall(self, x) ==
    LET N == Len(self.xs)
        L == BisectLeft(self.xs, x, 0, N) - 1
    IN  IF L = 0 - 1 THEN self.ys[1]
        ELSE IF L = N - 1 THEN self.ys[N]
        ELSE LET R == L + 1
                 xL == self.xs[L + 1]
                 xR == self.xs[R + 1]
                 fL == self.ys[L + 1]
                 fR == self.ys[R + 1]
                 fpL == self.fprime[L + 1]
                 fpR == self.fprime[R + 1]
                 h == RSub(xR, xL)
                 alpha == RAdd(RMul(RDiv(Float(3), Square(h)), RAdd(fpL, fpR)),
                               RMul(RDiv(Float(6), Cube(h)), RSub(fL, fR)))
                 t1 == RMul(RDiv(RNeg(fpL), h),
                            RSub(RDiv(Square(RSub(x, xR)), Float(2)),
                                 RDiv(Square(h), Float(2))))
                 t2 == RDiv(RMul(RDiv(fpR, h), Square(RSub(x, xL))), Float(2))
                 t3 == RMul(RMul(alpha, Square(RSub(x, xL))),
                            RSub(RDiv(RSub(x, xL), Float(3)), RDiv(h, Float(2))))
             IN  RAdd(RAdd(RAdd(t1, t2), t3), fL)

HermiteDiscard(self, x) ==
    LET xf == Float(x) IN
    IF xf \in Range(self.xs)
    THEN IF Len(self.xs) <= 1 THEN Raise(self, "Exception")
         ELSE LET index == IndexOf(self.xs, xf)
              IN  [self EXCEPT !.xs = RemoveAt(self.xs, index),
                               !.ys = RemoveAt(self.ys, index),
                               !.fprime = RemoveAt(self.fprime, index)]
    ELSE self

HermiteAdd(self, point) ==
    IF ~IsTuple3(point) THEN Raise(self, "TypeError")
    ELSE LET x_new == Float(point.c[1])
             y_new == Float(point.c[2])
             fprime_new == Float(point.c[3])
         IN  IF x_new \in Range(self.xs) THEN Raise(self, "Exception")
             ELSE LET index == BisectRight(self.xs, x_new, 0, Len(self.xs))
                  IN  [self EXCEPT !.xs = Insort(self.xs, x_new),
                                   !.ys = InsertAt(self.ys, index, y_new),
                                   !.fprime = InsertAt(self.fprime, index, fprime_new)]

---------------------------------------------------------------------------
(* The state machine: one action per constructor and method. *)

\* what is recorded of a call: the operation, whether its index lies in
\* [0, len), whether its sample is a 2-tuple (a 3-tuple for Hermite), whether
\* two samples of a constructor's input have the same x, the query or key,
\* and the number of samples given to a constructor
NoCall == [op |-> "none", inrange |-> TRUE, wf |-> TRUE, dup |-> FALSE,
           q |-> Float(0), n |-> 0]

PairLists == SeqsUpTo(Shapes(2), MaxLen)
TripleLists == SeqsUpTo(Shapes(3), MaxLen)
Queries == {Float(n) : n \in (0 - 1) .. (MaxX + 1)} \cup {Rat(1, 2)}

\* the samples of a constructor's input, as the engine will hold them
Samples(points, width) ==
    {[k \in 1 .. width |-> Float(points[i][k])] : i \in 1 .. Len(points)}

Update(r) ==
    /\ xs' = r.xs
    /\ ys' = r.ys
    /\ ws' = r.ws
    /\ coef' = r.coef
    /\ divided_diff' = r.divided_diff
    /\ fprime' = r.fprime
    /\ err' = r.err

Created(r, cls, points, g) ==
    /\ Update(r)
    /\ kind' = IF r.err = "none" THEN cls ELSE "none"
    /\ call' = [NoCall EXCEPT !.op = "init", !.n = Len(points),
                              !.dup = ~Distinct(Column(points, 1))]
    /\ ret' = <<>>
    /\ given' = IF r.err = "none" THEN g ELSE {}
    /\ distinctInit' = (r.err = "none" /\ Distinct(Column(points, 1)))

\* a method that returns a value and changes nothing
Returned(c, e, value) ==
    /\ call' = c
    /\ err' = e
    /\ ret' = value
    /\ UNCHANGED <<kind, arrays, given, distinctInit>>

\* a method that changes the arrays or raises
Mutated(r, bound, c, g) ==
    /\ Len(r.xs) <= bound
    /\ Update(r)
    /\ call' = c
    /\ ret' = <<>>
    /\ given' = IF r.err = "none" THEN g ELSE given
    /\ UNCHANGED <<kind, distinctInit>>

InRange(index) == index >= 0 /\ index < Len(xs)

SampleCall(op, index, point, width) ==
    [NoCall EXCEPT !.op = op, !.inrange = InRange(index),
                   !.wf = (point.tuple /\ Len(point.c) = width)]

IndexCall(op, index) == [NoCall EXCEPT !.op = op, !.inrange = InRange(index)]

ConstructLagrange ==
    /\ kind = "none"
    /\ \E points \in PairLists :
        Created(LagrangeInit(points), "Lagrange", points, {})

EvaluateLagrange ==
    /\ kind = "Lagrange"
    /\ \E q \in Queries :
        Returned([NoCall EXCEPT !.op = "evaluate", !.q = q], "none",
                <<LagrangeCall(Self, q)>>)

AppendLagrange ==
    /\ kind = "Lagrange"
    /\ \E point \in Points :
        Mutated(LagrangeAppend(Self, point), MaxLen,
               SampleCall("append", 0, point, 2), given)

DeleteLagrange ==
    /\ kind = "Lagrange"
    /\ \E index \in DelIndices :
        Mutated(LagrangeDelitem(Self, index), MaxLen,
               IndexCall("delete", index), given)

GetLagrange ==
    /\ kind = "Lagrange"
    /\ \E index \in Indices :
        LET r == LagrangeGetitem(Self, index)
       IN  Returned(IndexCall("get", index), r.err, r.ret)

ReplaceLagrange ==
    /\ kind = "Lagrange"
    /\ \E index \in Indices, point \in Points :
        Mutated(LagrangeSetitem(Self, index, point), MaxLen,
               SampleCall("replace", index, point, 2),
               given)

InsertLagrange ==
    /\ kind = "Lagrange"
    /\ \E index \in Indices, point \in Points :
        Mutated(LagrangeInsert(Self, index, point), MaxLen,
               SampleCall("insert", index, point, 2), given)

ConstructNewton ==
    /\ kind = "none"
    /\ \E points \in PairLists :
        Created(NewtonInit(points), "Newton", points, {})

AppendNewton ==
    /\ kind = "Newton"
    /\ \E point \in Points :
        Mutated(NewtonAppend(Self, point), MaxLen,
               SampleCall("append", 0, point, 2), given)

EvaluateNewton ==
    /\ kind = "Newton"
    /\ \E q \in Queries :
        Returned([NoCall EXCEPT !.op = "evaluate", !.q = q], "none",
                <<NewtonCall(Self, q)>>)

GetNewton ==
    /\ kind = "Newton"
    /\ \E index \in Indices :
        LET r == NewtonGetitem(Self, index)
       IN  Returned(IndexCall("get", index), r.err, r.ret)

ConstructLinear ==
    /\ kind = "none"
    /\ \E points \in PairLists :
        Created(LinearInit(points), "Linear", points, Samples(points, 2))

EvaluateLinear ==
    /\ kind = "Linear"
    /\ \E q \in Queries :
        Returned([NoCall EXCEPT !.op = "evaluate", !.q = q], "none",
                <<LinearCall(Self, q)>>)

DiscardLinear ==
    /\ kind = "Linear"
    /\ \E x \in XVals :
        Mutated(LinearDiscard(Self, x), MaxLen,
               [NoCall EXCEPT !.op = "discard", !.q = Float(x)],
               {g \in given : g[1] # Float(x)})

AddLinear ==
    /\ kind = "Linear"
    /\ \E point \in Points :
        Mutated(LinearAdd(Self, point), MaxLen,
               SampleCall("add", 0, point, 2),
               given \cup {[k \in 1 .. 2 |-> Float(point.c[k])]})

ConstructHermite ==
    /\ kind = "none"
    /\ \E points \in TripleLists :
        Created(HermiteInit(points), "Hermite", points, Samples(points, 3))

EvaluateHermite ==
    /\ kind = "Hermite"
    /\ \E q \in Queries :
        Returned([NoCall EXCEPT !.op = "evaluate", !.q = q], "none",
                <<HermiteCall(Self, q)>>)

DiscardHermite ==
    /\ kind = "Hermite"
    /\ \E x \in XVals :
        Mutated(HermiteDiscard(Self, x), MaxLen,
               [NoCall EXCEPT !.op = "discard", !.q = Float(x)],
               {g \in given : g[1] # Float(x)})

AddHermite ==
    /\ kind = "Hermite"
    /\ \E point \in TriplePoints :
        Mutated(HermiteAdd(Self, point), MaxLen,
               SampleCall("add", 0, point, 3),
               given \cup {[k \in 1 .. 3 |-> Float(point.c[k])]})

GetMutableSet ==
    /\ kind \in {"Linear", "Hermite"}
    /\ \E index \in Indices :
        LET r == MutableSetGetitem(Self, index)
       IN  Returned(IndexCall("get", index), r.err, r.ret)

Init ==
    /\ kind = "none"
    /\ xs = <<>>
    /\ ys = <<>>
    /\ ws = <<>>
    /\ coef = <<>>
    /\ divided_diff = <<>>
    /\ fprime = <<>>
    /\ call = NoCall
    /\ err = "none"
    /\ ret = <<>>
    /\ given = {}
    /\ distinctInit = FALSE

Next ==
    \/ ConstructLagrange
    \/ EvaluateLagrange
    \/ AppendLagrange
    \/ DeleteLagrange
    \/ GetLagrange
    \/ ReplaceLagrange
    \/ InsertLagrange
    \/ ConstructNewton
    \/ AppendNewton
    \/ EvaluateNewton
    \/ GetNewton
    \/ ConstructLinear
    \/ EvaluateLinear
    \/ DiscardLinear
    \/ AddLinear
    \/ ConstructHermite
    \/ EvaluateHermite
    \/ DiscardHermite
    \/ AddHermite
    \/ GetMutableSet

Spec == Init /\ [][Next]_vars

---------------------------------------------------------------------------
(* Properties *)

Lagrange == kind = "Lagrange"
Newton == kind = "Newton"
SortedSet == kind \in {"Linear", "Hermite"}
Succeeded(op) == call.op = op /\ err = "none"

\* C1: in every state of a Lagrange engine, whatever appends, inserts,
\* deletes and replaces led to it, the cached weights are the weights the
\* constructor computes from the current xs in their current order:
\* ws[i] = 1 / product over j # i of (xs[i] - xs[j]).
C1_WeightsEqualFreshWeights ==
    Lagrange =>
        /\ Len(ws) = Len(xs)
        /\ ws = LagrangeWeights(xs)
        /\ \A i \in 1 .. Len(xs) :
              RMul(ws[i], prod(Without([j \in 1 .. Len(xs) |-> RSub(xs[i], xs[j])], i)))
                  = Float(1)

\* a delete has just succeeded on a Lagrange engine and left two samples
C1_Witness ==
    Lagrange /\ Succeeded("delete") /\ Len(xs) = 2 /\ ws = LagrangeWeights(xs)

C3_DuplicateXRejected ==
    /\ (call.op = "init" /\ call.dup) => err # "none"
    /\ kind # "none" => Distinct(xs)

\* C4: a call that raises leaves every array of the engine as it was.
C4_RaiseLeavesArrays ==
    [][err' # "none" => UNCHANGED arrays]_vars

\* a delete has just been rejected on a 2-point Lagrange engine
C4_Witness ==
    Lagrange /\ call.op = "delete" /\ err = "Exception" /\ Len(xs) = 2

\* C5: get, insert, delete and replace on a Lagrange engine raise when the
\* index is outside [0, len).
C5_IndexOutsideRangeRaises ==
    (Lagrange /\ call.op \in {"get", "insert", "delete", "replace"}
              /\ ~call.inrange)
        => err # "none"

\* the sample held at 1-based position i
Stored(i) ==
    IF kind = "Hermite" THEN <<xs[i], ys[i], fprime[i]>> ELSE <<xs[i], ys[i]>>

\* C6: a Linear or Hermite engine constructed from samples with distinct x
\* keeps xs strictly ascending, ys (and fprime) as long as xs, and at every
\* index the y (and derivative) that was supplied with the x held there.
C6_SortedAndLockStep ==
    (SortedSet /\ distinctInit) =>
        /\ \A i \in 1 .. (Len(xs) - 1) : RLt(xs[i], xs[i + 1])
        /\ Len(ys) = Len(xs)
        /\ kind = "Hermite" => Len(fprime) = Len(xs)
        /\ \A i \in 1 .. Len(xs) : Stored(i) \in given
        /\ Cardinality(given) = Len(xs)

\* an add has just succeeded on a Linear engine, which now holds 3 samples,
\* the first two of different y
C6_Witness ==
    /\ kind = "Linear" /\ distinctInit /\ Succeeded("add")
    /\ Len(xs) = 3 /\ ys[1] # ys[2]

\* C7: evaluate on a Linear or Hermite engine returns the first y for a
\* query below every stored x and the last y for a query at or above every
\* stored x.
C7_FlatOutsideTheNodes ==
    (SortedSet /\ Succeeded("evaluate")) =>
        /\ (\A u \in Range(xs) : RLt(call.q, u)) => ret = <<ys[1]>>
        /\ (\A u \in Range(xs) : ~RLt(call.q, u)) => ret = <<ys[Len(ys)]>>

MinSize == IF kind \in {"Lagrange", "Newton"} THEN 2 ELSE 1

C9_EvaluateAtNode ==
    (kind # "none" /\ distinctInit /\ Succeeded("evaluate")) =>
        \A i \in 1 .. Len(xs) : call.q = xs[i] => ret = <<ys[i]>>

\* a Hermite engine of 3 samples has just been evaluated at its interior
\* node, between two samples of different f
C9_Witness ==
    /\ kind = "Hermite" /\ distinctInit /\ Succeeded("evaluate")
    /\ Len(xs) = 3 /\ call.q = xs[2] /\ ys[1] # ys[2] /\ ret = <<ys[2]>>

\* C10: append, insert and replace on a Lagrange engine raise when the
\* sample is not a 2-tuple.
C10_MalformedSampleRaises ==
    (Lagrange /\ call.op \in {"append", "insert", "replace"} /\ ~call.wf)
        => err # "none"

====
